---- MODULE Spec2Model ----
(***************************************************************************)
(* A model of tap (src/src/main.rs): detection of the build system by      *)
(* walking up from the working directory, and the orchestration of the     *)
(* build, run, clean and install subcommands over Make, CMake and Meson,   *)
(* with the creation and rollback of Meson's build directory.              *)
(*                                                                         *)
(* The file system is the set of absolute paths that exist; a path is the  *)
(* sequence of its components, <<>> being the root "/".  One behaviour is   *)
(* a sequence of invocations of the tool over the same file system.        *)
(***************************************************************************)
EXTENDS Integers, Sequences, FiniteSets, TLC

VARIABLES
    fs,            \* the absolute paths that exist (marker files, build directories)
    shell_cwd,     \* the directory the user invokes the tool from
    cwd,           \* the process's current working directory
    pc,            \* where the invocation stands
    opts,          \* Opts::parse(): build_system, build_mode, n_jobs, subcommand
    fs0,           \* the file system as it was when the invocation started
    path,          \* detect(): the loop variable
    consulted,     \* detect(): the directories detect_in_dir has been called on
    chdirs,        \* the directories given to set_current_dir, in order
    build_system,  \* main(): the resolved build system
    build_dir,     \* perform_subcommand(): build_dir, in the call main() makes
    step_build_dir,\* perform_subcommand(): build_dir, in the call of the Build step
    setup_err,     \* perform_subcommand(): the `e` of the failed `meson setup`
    build_result,  \* what the Build step returned
    confirmed,     \* the outcome of the debug-install confirmation
    is_root,       \* getuid().is_root(), as of prefix resolution
    exec_dir,      \* dirs::executable_dir(), as of prefix resolution
    prefix,        \* perform_subcommand(): the resolved install prefix
    cmds,          \* every run_command call of the invocation, with its exit status
    removed,       \* the paths given to remove_dir_all in the invocation
    result         \* what main() returned

vars == <<fs, shell_cwd, cwd, pc, opts, fs0, path, consulted, chdirs, build_system,
          build_dir, step_build_dir, setup_err, build_result, confirmed, is_root, exec_dir, prefix,
          cmds, removed, result>>

(***************************************************************************)
(* Bounds                                                                  *)
(***************************************************************************)
\* The depth of the deepest directory of the tree (the root has depth 0).
MaxDepth == 2
\* In SpecDetect, how many directories may hold marker files.
MaxMarkedDirs == 2
\* The largest exit code a child process returns.
MaxExit == 1
\* The largest job count given with -j.
MaxJobs == 1

(***************************************************************************)
(* Paths                                                                   *)
(***************************************************************************)
DirNames == <<"d1", "d2", "d3", "d4">>

Dir(n) == SubSeq(DirNames, 1, n)

\* The directories of the tree: one chain from the root down.
Dirs == {Dir(n) : n \in 0..MaxDepth}

Root == <<>>

None == [some |-> FALSE, val |-> <<>>]

Some(x) == [some |-> TRUE, val |-> x]

\* Path::parent on an absolute path: None for the root.
Parent(p) == IF p = <<>> THEN None ELSE Some(SubSeq(p, 1, Len(p) - 1))

\* Path::join with a single relative component.
Join(p, name) == Append(p, name)

\* Path::exists
Exists(p) == p \in fs

\* A PathBuf as written: absolute or not, its components, a trailing slash or not.
PathBuf(abs, comps, trail) == [abs |-> abs, comps |-> comps, trail |-> trail]

NoPath == PathBuf(FALSE, <<>>, FALSE)

\* The PathBuf of an absolute path of the model's file system.
AbsPath(p) == PathBuf(TRUE, p, FALSE)

\* Equality of two PathBufs as Rust's Path compares them: by components.
PathEq(a, b) == a.abs = b.abs /\ a.comps = b.comps

\* Path::parent on a PathBuf: None when there is no component to drop.
PathBufParent(p) ==
    IF p.comps = <<>> THEN [some |-> FALSE, val |-> NoPath]
    ELSE [some |-> TRUE,
          val |-> PathBuf(p.abs, SubSeq(p.comps, 1, Len(p.comps) - 1), FALSE)]

(***************************************************************************)
(* Options                                                                 *)
(***************************************************************************)
BuildSystems == {"Make", "CMake", "Meson"}

BuildModes == {"Debug", "Release"}

Markers == {"CMakeLists.txt", "Makefile", "makefile", "meson.build"}

UsrLocal == PathBuf(TRUE, <<"usr", "local">>, TRUE)

\* The prefixes given with --prefix.
Prefixes == {PathBuf(TRUE, <<"opt">>, FALSE), PathBuf(FALSE, <<"stage">>, FALSE)}

\* What dirs::executable_dir() may return.
ExecutableDirs ==
    {[some |-> FALSE, val |-> NoPath],
     [some |-> TRUE, val |-> PathBuf(TRUE, <<>>, FALSE)],
     [some |-> TRUE, val |-> PathBuf(TRUE, <<"home", "u", ".local", "bin">>, FALSE)]}

NoPrefix == [some |-> FALSE, val |-> NoPath]

\* An argument of a command line: a literal, a literal followed by a path, or a number.
Tok(s) == [s |-> s, p |-> NoPath, n |-> -1]

TokPath(s, p) == [s |-> s, p |-> p, n |-> -1]

TokNum(n) == [s |-> "", p |-> NoPath, n |-> n]

\* What `run` may be given as its executable: a relative name, an absolute path.
Executables == {"prog", "/opt/prog"}

\* Path::new of an executable's string.
ExecutablePath(s) ==
    IF s = "/opt/prog" THEN PathBuf(TRUE, <<"opt", "prog">>, FALSE)
    ELSE PathBuf(FALSE, <<s>>, FALSE)

\* Path::join of two paths: an absolute path replaces the one it is joined to.
JoinPath(base, p) ==
    IF p.abs THEN p ELSE PathBuf(base.abs, base.comps \o p.comps, p.trail)

Subcommands ==
    {[kind |-> "Build", executable |-> "", args |-> <<>>, prefix |-> NoPrefix],
     [kind |-> "Clean", executable |-> "", args |-> <<>>, prefix |-> NoPrefix],
     [kind |-> "Install", executable |-> "", args |-> <<>>, prefix |-> NoPrefix]}
    \cup {[kind |-> "Run", executable |-> e, args |-> <<Tok("--flag")>>,
           prefix |-> NoPrefix] : e \in Executables}
    \cup {[kind |-> "Install", executable |-> "", args |-> <<>>,
           prefix |-> [some |-> TRUE, val |-> p]] : p \in Prefixes}

AllOpts ==
    [build_system : BuildSystems \cup {"None"}, build_mode : BuildModes,
     n_jobs : 1..MaxJobs, subcommand : Subcommands]

(***************************************************************************)
(* Results                                                                 *)
(***************************************************************************)
NoResult == [kind |-> "none", ctx |-> <<>>, root |-> "", code |-> 0, cmd |-> <<>>]

Ok == [kind |-> "ok", ctx |-> <<>>, root |-> "", code |-> 0, cmd |-> <<>>]

\* Error::msg(root)
Err(root) == [kind |-> "err", ctx |-> <<>>, root |-> root, code |-> 0, cmd |-> <<>>]

\* todo!()
Panic == [kind |-> "panic", ctx |-> <<>>, root |-> "not yet implemented", code |-> 0,
          cmd |-> <<>>]

\* with_context: an error gets one more layer of context, outermost first.
WithContext(r, c) == IF r.kind = "err" THEN [r EXCEPT !.ctx = <<c>> \o @] ELSE r

IoError == "io error"

(***************************************************************************)
(* The process executor                                                    *)
(***************************************************************************)
\* What becomes of a child: not spawned, not waited for, killed, or exited with a code.
ExitStatuses ==
    {[kind |-> k, code |-> 0] : k \in {"spawn", "wait", "killed"}}
    \cup {[kind |-> "exit", code |-> c] : c \in 0..MaxExit}

\* ExitStatus::success
Success(st) == st.kind = "exit" /\ st.code = 0

\* once(command).chain(args): the words of the rendered invocation.
command_to_string(command, args) == <<command>> \o args

\* run_command that does not look at how the child ended.
run_command_Unchecked(command, args, st) == Ok

run_command(command, args, st) ==
    CASE st.kind = "spawn" -> WithContext(Err(IoError), "Couldn't spawn process")
      [] st.kind = "wait" -> WithContext(Err(IoError), "Couldn't wait for process to finish")
      [] Success(st) -> Ok
      [] OTHER ->
            LET e == IF st.kind = "exit"
                     THEN [Err("Process exited with exit code") EXCEPT !.code = st.code]
                     ELSE Err("Process was killed")
            IN  [WithContext(e, "While running command") EXCEPT
                    !.cmd = command_to_string(command, args)]

\* The log entry of one run_command call.
Ran(command, args, st) == [program |-> command, args |-> args, status |-> st]

(***************************************************************************)
(* Detection                                                               *)
(***************************************************************************)
\* detect_in_dir with meson.build looked for before the makefiles.
detect_in_dir_MesonFirst(p) ==
    IF Exists(Join(p, "CMakeLists.txt")) THEN Some("CMake")
    ELSE IF Exists(Join(p, "meson.build")) THEN Some("Meson")
    ELSE IF Exists(Join(p, "Makefile")) \/ Exists(Join(p, "makefile")) THEN Some("Make")
    ELSE None

detect_in_dir(p) ==
    IF Exists(Join(p, "CMakeLists.txt")) THEN Some("CMake")
    ELSE IF Exists(Join(p, "Makefile")) \/ Exists(Join(p, "makefile")) THEN Some("Make")
    ELSE IF Exists(Join(p, "meson.build")) THEN Some("Meson")
    ELSE None

\* The loop condition of detect(): the directory has a parent.
DetectContinues(p) == Parent(p).some

\* main(): the error of a detection that found nothing.
NotDetected == Err("Could not detect the build system")

\* main(): the build system was given with -b.
MainExplicit ==
    /\ pc = "main"
    /\ opts.build_system # "None"
    /\ build_system' = opts.build_system
    /\ pc' = "perform"
    /\ UNCHANGED <<fs, shell_cwd, cwd, opts, fs0, path, consulted, chdirs, build_dir,
                   step_build_dir, setup_err, build_result, confirmed, is_root, exec_dir, prefix, cmds,
                   removed, result>>

\* main() calls detect(), which reads the current directory.
DetectEnter ==
    /\ pc = "main"
    /\ opts.build_system = "None"
    /\ \E ok \in BOOLEAN :
        IF ok
        THEN /\ path' = cwd
             /\ pc' = "detect"
             /\ UNCHANGED result
        ELSE /\ result' = WithContext(Err(IoError), "Couldn't detect the build system")
             /\ pc' = "exit"
             /\ UNCHANGED path
    /\ UNCHANGED <<fs, shell_cwd, cwd, opts, fs0, consulted, chdirs, build_system,
                   build_dir, step_build_dir, setup_err, build_result, confirmed, is_root, exec_dir,
                   prefix, cmds, removed>>

\* DetectMatch with the set_current_dir lost.
DetectMatch_NoChdir ==
    /\ pc = "detect"
    /\ DetectContinues(path)
    /\ detect_in_dir(path).some
    /\ consulted' = consulted \cup {path}
    /\ build_system' = detect_in_dir(path).val
    /\ pc' = "perform"
    /\ UNCHANGED <<fs, shell_cwd, cwd, opts, fs0, path, chdirs, build_dir, step_build_dir,
                   setup_err, build_result, confirmed, is_root, exec_dir, prefix, cmds,
                   removed, result>>

\* detect(): the directory at hand matches; the process moves there.
DetectMatch ==
    /\ pc = "detect"
    /\ DetectContinues(path)
    /\ detect_in_dir(path).some
    /\ consulted' = consulted \cup {path}
    /\ chdirs' = Append(chdirs, path)
    /\ \E ok \in BOOLEAN :
        IF ok
        THEN /\ cwd' = path
             /\ build_system' = detect_in_dir(path).val
             /\ pc' = "perform"
             /\ UNCHANGED result
        ELSE /\ result' = WithContext(Err(IoError), "Couldn't detect the build system")
             /\ pc' = "exit"
             /\ UNCHANGED <<cwd, build_system>>
    /\ UNCHANGED <<fs, shell_cwd, opts, fs0, path, build_dir, step_build_dir, setup_err,
                   build_result,
                   confirmed, is_root, exec_dir, prefix, cmds, removed>>

\* DetectAscend that also goes past a directory that matches, looking for more above.
DetectAscend_PastMatch ==
    /\ pc = "detect"
    /\ DetectContinues(path)
    /\ consulted' = consulted \cup {path}
    /\ path' = Parent(path).val
    /\ UNCHANGED <<fs, shell_cwd, cwd, pc, opts, fs0, chdirs, build_system, build_dir,
                   step_build_dir, setup_err, build_result, confirmed, is_root, exec_dir,
                   prefix, cmds, removed, result>>

\* detect(): the directory at hand does not match; go to its parent.
DetectAscend ==
    /\ pc = "detect"
    /\ DetectContinues(path)
    /\ ~detect_in_dir(path).some
    /\ consulted' = consulted \cup {path}
    /\ path' = Parent(path).val
    /\ UNCHANGED <<fs, shell_cwd, cwd, pc, opts, fs0, chdirs, build_system, build_dir,
                   step_build_dir, setup_err, build_result, confirmed, is_root, exec_dir, prefix, cmds,
                   removed, result>>

\* DetectNotFound that falls back to Make instead of failing.
DetectNotFound_DefaultMake ==
    /\ pc = "detect"
    /\ ~DetectContinues(path)
    /\ build_system' = "Make"
    /\ pc' = "perform"
    /\ UNCHANGED <<fs, shell_cwd, cwd, opts, fs0, path, consulted, chdirs, build_dir,
                   step_build_dir, setup_err, build_result, confirmed, is_root, exec_dir,
                   prefix, cmds, removed, result>>

\* detect(): the loop ends without a match, and main() fails.
DetectNotFound ==
    /\ pc = "detect"
    /\ ~DetectContinues(path)
    /\ result' = NotDetected
    /\ pc' = "exit"
    /\ UNCHANGED <<fs, shell_cwd, cwd, opts, fs0, path, consulted, chdirs, build_system,
                   build_dir, step_build_dir, setup_err, build_result, confirmed, is_root, exec_dir,
                   prefix, cmds, removed>>

(***************************************************************************)
(* The start of an invocation                                              *)
(***************************************************************************)
\* What opts holds before Opts::parse().
NoOpts == [build_system |-> "None", build_mode |-> "Debug", n_jobs |-> 1,
           subcommand |-> [kind |-> "Build", executable |-> "", args |-> <<>>,
                           prefix |-> NoPrefix]]

\* Opts::parse(): a new process, started from the user's directory.
Parse ==
    /\ pc = "start"
    /\ \E o \in AllOpts : opts' = o
    /\ pc' = "main"
    /\ UNCHANGED <<fs, shell_cwd, cwd, fs0, path, consulted, chdirs, build_system,
                   build_dir, step_build_dir, setup_err, build_result, confirmed, is_root,
                   exec_dir, prefix, cmds, removed, result>>

\* main() has returned: the process ends and its state goes; the file system stays.
ProcessExit ==
    /\ pc = "exit"
    /\ pc' = "start"
    /\ opts' = NoOpts
    /\ cwd' = shell_cwd
    /\ fs0' = fs
    /\ path' = <<>>
    /\ consulted' = {}
    /\ chdirs' = <<>>
    /\ build_system' = "Unset"
    /\ build_dir' = <<>>
    /\ step_build_dir' = <<>>
    /\ setup_err' = NoResult
    /\ build_result' = NoResult
    /\ confirmed' = "unasked"
    /\ is_root' = FALSE
    /\ exec_dir' = NoPrefix
    /\ prefix' = NoPrefix
    /\ cmds' = <<>>
    /\ removed' = {}
    /\ result' = NoResult
    /\ UNCHANGED <<fs, shell_cwd>>

(***************************************************************************)
(* perform_subcommand                                                      *)
(***************************************************************************)
\* BuildDirName with one name for both modes.
BuildDirName_OneName(mode) == ".tap_build_debug"

\* The Build-Directory Policy: the directory's name for a build mode.
BuildDirName(mode) == IF mode = "Debug" THEN ".tap_build_debug" ELSE ".tap_build_release"

\* current_dir().join(name of the build mode)
BuildDir(dir, mode) == Join(dir, BuildDirName(mode))

\* build_dir_str, as an argument
BuildDirStr(dir) == TokPath("", AbsPath(dir))

\* The step that follows a successful Build in run and install.
AfterBuild ==
    IF opts.subcommand.kind = "Run" THEN "run"
    ELSE IF opts.build_mode = "Debug" THEN "confirm"
    ELSE "prefix"

\* BuildReturns with the `?` after the Build step lost: run and install go on regardless.
BuildReturns_Ignoring(res) ==
    /\ build_result' = res
    /\ IF opts.subcommand.kind = "Build"
       THEN /\ result' = res
            /\ pc' = "exit"
       ELSE /\ pc' = AfterBuild
            /\ UNCHANGED result

\* The Build step returns res: to main() for build, to the run or install arm otherwise,
\* which goes on if res is Ok and fails with it, wrapped, if not.
BuildReturns(res) ==
    /\ build_result' = res
    /\ IF opts.subcommand.kind = "Build"
       THEN /\ result' = res
            /\ pc' = "exit"
       ELSE IF res.kind = "ok"
       THEN /\ pc' = AfterBuild
            /\ UNCHANGED result
       ELSE /\ result' = WithContext(res, "While building the binary")
            /\ pc' = "exit"

\* The call main() makes: build_dir is computed, and the subcommand's arm is entered.
PerformEnter ==
    /\ pc = "perform"
    /\ \E ok \in BOOLEAN :
        IF ok
        THEN /\ build_dir' = BuildDir(cwd, opts.build_mode)
             /\ step_build_dir' =
                    IF opts.subcommand.kind = "Build"
                    THEN BuildDir(cwd, opts.build_mode) ELSE step_build_dir
             /\ pc' = CASE opts.subcommand.kind = "Build" -> "build"
                        [] opts.subcommand.kind = "Clean" -> "clean"
                        [] OTHER -> "build_call"
             /\ UNCHANGED result
        ELSE /\ result' = WithContext(Err(IoError), "Couldn't get current directory")
             /\ pc' = "exit"
             /\ UNCHANGED <<build_dir, step_build_dir>>
    /\ UNCHANGED <<fs, shell_cwd, cwd, opts, fs0, path, consulted, chdirs, build_system,
                   setup_err, build_result, confirmed, is_root, exec_dir, prefix, cmds,
                   removed>>

\* run and install call perform_subcommand(Build), which computes build_dir again.
BuildCall ==
    /\ pc = "build_call"
    /\ \E ok \in BOOLEAN :
        IF ok
        THEN /\ step_build_dir' = BuildDir(cwd, opts.build_mode)
             /\ pc' = "build"
             /\ UNCHANGED <<result, build_result>>
        ELSE /\ BuildReturns(WithContext(Err(IoError), "Couldn't get current directory"))
             /\ UNCHANGED step_build_dir
    /\ UNCHANGED <<fs, shell_cwd, cwd, opts, fs0, path, consulted, chdirs, build_system,
                   build_dir, setup_err, confirmed, is_root, exec_dir, prefix, cmds,
                   removed>>

\* The arguments of `make` in the Build step.
MakeBuildArgs ==
    IF opts.build_mode = "Debug"
    THEN <<Tok("-j"), TokNum(opts.n_jobs)>>
    ELSE <<Tok("CFLAGS=-O3"), Tok("-j"), TokNum(opts.n_jobs)>>

\* Build with Make: `make`.
BuildMake ==
    /\ pc = "build"
    /\ build_system = "Make"
    /\ \E st \in ExitStatuses :
        /\ cmds' = Append(cmds, Ran(Tok("make"), MakeBuildArgs, st))
        /\ BuildReturns(run_command(Tok("make"), MakeBuildArgs, st))
    /\ UNCHANGED <<fs, shell_cwd, cwd, opts, fs0, path, consulted, chdirs, build_system,
                   build_dir, step_build_dir, setup_err, confirmed, is_root, exec_dir,
                   prefix, removed>>

\* BuildCMake with an empty arm, Ok(()), in the place of todo!().
BuildCMake_Skips ==
    /\ pc = "build"
    /\ build_system = "CMake"
    /\ BuildReturns(Ok)
    /\ UNCHANGED <<fs, shell_cwd, cwd, opts, fs0, path, consulted, chdirs, build_system,
                   build_dir, step_build_dir, setup_err, confirmed, is_root, exec_dir,
                   prefix, cmds, removed>>

\* Build with CMake: todo!().
BuildCMake ==
    /\ pc = "build"
    /\ build_system = "CMake"
    /\ BuildReturns(Panic)
    /\ UNCHANGED <<fs, shell_cwd, cwd, opts, fs0, path, consulted, chdirs, build_system,
                   build_dir, step_build_dir, setup_err, confirmed, is_root, exec_dir,
                   prefix, cmds, removed>>

\* MesonSetupArgs with the build type not taken from the build mode.
MesonSetupArgs_DebugOnly ==
    <<Tok("setup"), Tok("--buildtype=debug"), BuildDirStr(step_build_dir)>>

\* The arguments of `meson setup`.
MesonSetupArgs ==
    <<Tok("setup"),
      Tok(IF opts.build_mode = "Debug" THEN "--buildtype=debug" ELSE "--buildtype=release"),
      BuildDirStr(step_build_dir)>>

\* NeedsSetup with the check for an existing directory lost.
NeedsSetup_Always(dir, files) == TRUE

\* Whether the Build step runs `meson setup`: the build directory does not exist.
NeedsSetup(dir, files) == dir \notin files

\* NeedsCleanup with the check for a partial directory lost.
NeedsCleanup_Never(dir, files) == FALSE

\* Whether a failed setup is followed by the removal of the build directory: it exists.
NeedsCleanup(dir, files) == dir \in files

\* Build with Meson, the build directory absent: `meson setup`.  A setup that succeeds
\* has created the directory; one that fails after it was spawned may have.
MesonSetup ==
    /\ pc = "build"
    /\ build_system = "Meson"
    /\ NeedsSetup(step_build_dir, fs)
    /\ \E st \in ExitStatuses, partial \in BOOLEAN :
        LET created == IF Success(st) THEN TRUE
                       ELSE IF st.kind = "spawn" THEN FALSE ELSE partial
            files == IF created THEN fs \cup {step_build_dir} ELSE fs
            r == run_command(Tok("meson"), MesonSetupArgs, st)
        IN  /\ cmds' = Append(cmds, Ran(Tok("meson"), MesonSetupArgs, st))
            /\ fs' = files
            /\ IF r.kind = "ok"
               THEN /\ pc' = "compile"
                    /\ UNCHANGED <<setup_err, build_result, result>>
               ELSE IF NeedsCleanup(step_build_dir, files)
               THEN /\ pc' = "cleanup"
                    /\ setup_err' = r
                    /\ UNCHANGED <<build_result, result>>
               ELSE /\ setup_err' = r
                    /\ BuildReturns(r)
    /\ UNCHANGED <<shell_cwd, cwd, opts, fs0, path, consulted, chdirs, build_system,
                   build_dir, step_build_dir, confirmed, is_root, exec_dir, prefix,
                   removed>>

\* What the Build step returns after the removal of the partial directory.
CleanupResult(removal_ok, e) ==
    IF removal_ok THEN e
    ELSE WithContext(Err(IoError), "Couldn't clean up partial build directory")

\* After a failed setup that left the directory: remove_dir_all, which may fail.
CleanupPartial ==
    /\ pc = "cleanup"
    /\ removed' = removed \cup {step_build_dir}
    /\ \E removal_ok \in BOOLEAN :
        /\ fs' = IF removal_ok THEN fs \ {step_build_dir} ELSE fs
        /\ BuildReturns(CleanupResult(removal_ok, setup_err))
    /\ UNCHANGED <<shell_cwd, cwd, opts, fs0, path, consulted, chdirs, build_system,
                   build_dir, step_build_dir, setup_err, confirmed, is_root, exec_dir,
                   prefix, cmds>>

\* The arguments of `meson compile`.
MesonCompileArgs ==
    <<Tok("compile"), Tok("-C"), BuildDirStr(step_build_dir), Tok("-j"),
      TokNum(opts.n_jobs)>>

\* Build with Meson, the build directory present or just set up: `meson compile`.
MesonCompile ==
    /\ \/ pc = "compile"
       \/ pc = "build" /\ build_system = "Meson" /\ ~NeedsSetup(step_build_dir, fs)
    /\ \E st \in ExitStatuses :
        /\ cmds' = Append(cmds, Ran(Tok("meson"), MesonCompileArgs, st))
        /\ BuildReturns(run_command(Tok("meson"), MesonCompileArgs, st))
    /\ UNCHANGED <<fs, shell_cwd, cwd, opts, fs0, path, consulted, chdirs, build_system,
                   build_dir, step_build_dir, setup_err, confirmed, is_root, exec_dir,
                   prefix, removed>>

\* The program `run` executes: as given with Make, under the build directory with Meson.
RunProgram ==
    IF build_system = "Make" THEN Tok(opts.subcommand.executable)
    ELSE TokPath("", JoinPath(AbsPath(build_dir), ExecutablePath(opts.subcommand.executable)))

\* run, after the Build step: the executable.
RunExecutable ==
    /\ pc = "run"
    /\ \E st \in ExitStatuses :
        /\ cmds' = Append(cmds, Ran(RunProgram, opts.subcommand.args, st))
        /\ result' = run_command(RunProgram, opts.subcommand.args, st)
    /\ pc' = "exit"
    /\ UNCHANGED <<fs, shell_cwd, cwd, opts, fs0, path, consulted, chdirs, build_system,
                   build_dir, step_build_dir, setup_err, build_result, confirmed, is_root,
                   exec_dir, prefix, removed>>

\* clean with Make: `make clean`.
CleanMake ==
    /\ pc = "clean"
    /\ build_system = "Make"
    /\ \E st \in ExitStatuses :
        /\ cmds' = Append(cmds, Ran(Tok("make"), <<Tok("clean")>>, st))
        /\ result' = run_command(Tok("make"), <<Tok("clean")>>, st)
    /\ pc' = "exit"
    /\ UNCHANGED <<fs, shell_cwd, cwd, opts, fs0, path, consulted, chdirs, build_system,
                   build_dir, step_build_dir, setup_err, build_result, confirmed, is_root,
                   exec_dir, prefix, removed>>

\* clean with CMake: todo!().
CleanCMake ==
    /\ pc = "clean"
    /\ build_system = "CMake"
    /\ result' = Panic
    /\ pc' = "exit"
    /\ UNCHANGED <<fs, shell_cwd, cwd, opts, fs0, path, consulted, chdirs, build_system,
                   build_dir, step_build_dir, setup_err, build_result, confirmed, is_root,
                   exec_dir, prefix, cmds, removed>>

\* The arguments of `meson compile --clean`.
MesonCleanArgs == <<Tok("compile"), Tok("-C"), BuildDirStr(build_dir), Tok("--clean")>>

\* clean with Meson: `meson compile --clean`.
CleanMeson ==
    /\ pc = "clean"
    /\ build_system = "Meson"
    /\ \E st \in ExitStatuses :
        /\ cmds' = Append(cmds, Ran(Tok("meson"), MesonCleanArgs, st))
        /\ result' = run_command(Tok("meson"), MesonCleanArgs, st)
    /\ pc' = "exit"
    /\ UNCHANGED <<fs, shell_cwd, cwd, opts, fs0, path, consulted, chdirs, build_system,
                   build_dir, step_build_dir, setup_err, build_result, confirmed, is_root,
                   exec_dir, prefix, removed>>

(***************************************************************************)
(* install                                                                 *)
(***************************************************************************)
\* ConfirmResult with the answer ignored.
ConfirmResult_AlwaysOk(answer) == Ok

\* What the confirmation of a debug install returns: Ok(true), Ok(false) or an error.
ConfirmResult(answer) ==
    CASE answer = "yes" -> Ok
      [] answer = "no" -> Err("Aborted.")
      [] OTHER -> Err(IoError)

\* install in debug mode, after the Build step: the confirmation.
Confirm ==
    /\ pc = "confirm"
    /\ \E answer \in {"yes", "no", "error"} :
        /\ confirmed' = answer
        /\ IF ConfirmResult(answer).kind = "ok"
           THEN /\ pc' = "prefix"
                /\ UNCHANGED result
           ELSE /\ result' = ConfirmResult(answer)
                /\ pc' = "exit"
    /\ UNCHANGED <<fs, shell_cwd, cwd, opts, fs0, path, consulted, chdirs, build_system,
                   build_dir, step_build_dir, setup_err, build_result, is_root, exec_dir,
                   prefix, cmds, removed>>

\* resolve_prefix with the privilege check made before the explicit prefix is looked at.
resolve_prefix_RootFirst(explicit, root, ed) ==
    IF root THEN [res |-> Ok, val |-> UsrLocal]
    ELSE IF explicit.some THEN [res |-> Ok, val |-> explicit.val]
    ELSE IF ~ed.some
    THEN [res |-> Err("Couldn't get the user's executable directory"), val |-> NoPath]
    ELSE IF ~PathBufParent(ed.val).some
    THEN [res |-> Err("Couldn't get the parent of the user's executable directory"),
          val |-> NoPath]
    ELSE [res |-> Ok, val |-> PathBufParent(ed.val).val]

\* The install prefix: the one given, else /usr/local/ for root, else the parent of the
\* user's executable directory.
resolve_prefix(explicit, root, ed) ==
    IF explicit.some THEN [res |-> Ok, val |-> explicit.val]
    ELSE IF root THEN [res |-> Ok, val |-> UsrLocal]
    ELSE IF ~ed.some
    THEN [res |-> Err("Couldn't get the user's executable directory"), val |-> NoPath]
    ELSE IF ~PathBufParent(ed.val).some
    THEN [res |-> Err("Couldn't get the parent of the user's executable directory"),
          val |-> NoPath]
    ELSE [res |-> Ok, val |-> PathBufParent(ed.val).val]

\* install, after the confirmation: the prefix.
ResolvePrefix ==
    /\ pc = "prefix"
    /\ \E root \in BOOLEAN, ed \in ExecutableDirs :
        LET r == resolve_prefix(opts.subcommand.prefix, root, ed)
        IN  /\ is_root' = root
            /\ exec_dir' = ed
            /\ IF r.res.kind = "ok"
               THEN /\ prefix' = [some |-> TRUE, val |-> r.val]
                    /\ pc' = IF build_system = "Make" THEN "make_install" ELSE "configure"
                    /\ UNCHANGED result
               ELSE /\ result' = r.res
                    /\ pc' = "exit"
                    /\ UNCHANGED prefix
    /\ UNCHANGED <<fs, shell_cwd, cwd, opts, fs0, path, consulted, chdirs, build_system,
                   build_dir, step_build_dir, setup_err, build_result, confirmed, cmds,
                   removed>>

\* The arguments of `make install`.
MakeInstallArgs == <<Tok("install"), TokPath("PREFIX=", prefix.val)>>

\* install with Make: `make install PREFIX=<prefix>`.
InstallMake ==
    /\ pc = "make_install"
    /\ \E st \in ExitStatuses :
        /\ cmds' = Append(cmds, Ran(Tok("make"), MakeInstallArgs, st))
        /\ result' = run_command(Tok("make"), MakeInstallArgs, st)
    /\ pc' = "exit"
    /\ UNCHANGED <<fs, shell_cwd, cwd, opts, fs0, path, consulted, chdirs, build_system,
                   build_dir, step_build_dir, setup_err, build_result, confirmed, is_root,
                   exec_dir, prefix, removed>>

\* The arguments of `meson configure`.
MesonConfigureArgs ==
    <<Tok("configure"), Tok("-D"), TokPath("prefix=", prefix.val), BuildDirStr(build_dir)>>

\* MesonConfigure with the `?` after configure lost: `meson install` follows regardless.
MesonConfigure_GoesOn ==
    /\ pc = "configure"
    /\ \E st \in ExitStatuses :
        cmds' = Append(cmds, Ran(Tok("meson"), MesonConfigureArgs, st))
    /\ pc' = "meson_install"
    /\ UNCHANGED <<fs, shell_cwd, cwd, opts, fs0, path, consulted, chdirs, build_system,
                   build_dir, step_build_dir, setup_err, build_result, confirmed, is_root,
                   exec_dir, prefix, removed, result>>

\* install with Meson: `meson configure -D prefix=<prefix> <build_dir>`.
MesonConfigure ==
    /\ pc = "configure"
    /\ \E st \in ExitStatuses :
        LET r == run_command(Tok("meson"), MesonConfigureArgs, st)
        IN  /\ cmds' = Append(cmds, Ran(Tok("meson"), MesonConfigureArgs, st))
            /\ IF r.kind = "ok"
               THEN /\ pc' = "meson_install"
                    /\ UNCHANGED result
               ELSE /\ result' = r
                    /\ pc' = "exit"
    /\ UNCHANGED <<fs, shell_cwd, cwd, opts, fs0, path, consulted, chdirs, build_system,
                   build_dir, step_build_dir, setup_err, build_result, confirmed, is_root,
                   exec_dir, prefix, removed>>

\* The arguments of `meson install`.
MesonInstallArgs == <<Tok("install"), Tok("-C"), BuildDirStr(build_dir)>>

\* install with Meson, after configure: `meson install -C <build_dir>`.
MesonInstall ==
    /\ pc = "meson_install"
    /\ \E st \in ExitStatuses :
        /\ cmds' = Append(cmds, Ran(Tok("meson"), MesonInstallArgs, st))
        /\ result' = run_command(Tok("meson"), MesonInstallArgs, st)
    /\ pc' = "exit"
    /\ UNCHANGED <<fs, shell_cwd, cwd, opts, fs0, path, consulted, chdirs, build_system,
                   build_dir, step_build_dir, setup_err, build_result, confirmed, is_root,
                   exec_dir, prefix, removed>>

(***************************************************************************)
(* Specifications                                                          *)
(***************************************************************************)
\* The marker files of a tree, given each directory's marker names.
MarkerFiles(f) == UNION {{Join(d, m) : m \in f[d]} : d \in Dirs}

\* The directories that hold a marker.
Marked(f) == {d \in Dirs : f[d] # {}}

\* A project tree: at most one directory holds a marker file, and holds one.
ProjectTrees ==
    {MarkerFiles(f) :
        f \in {g \in [Dirs -> {{}, {"CMakeLists.txt"}, {"Makefile"}, {"meson.build"}}] :
                \A d1, d2 \in Marked(g) : d1 = d2}}

\* Any tree of marker files over at most MaxMarkedDirs directories.
DetectTrees ==
    {MarkerFiles(f) :
        f \in {g \in [Dirs -> SUBSET Markers] : Cardinality(Marked(g)) <= MaxMarkedDirs}}

\* The state no invocation has changed: what every variable of an invocation starts as.
Fresh ==
    /\ fs0 = fs
    /\ path = <<>>
    /\ consulted = {}
    /\ chdirs = <<>>
    /\ build_system = "Unset"
    /\ build_dir = <<>>
    /\ step_build_dir = <<>>
    /\ setup_err = NoResult
    /\ build_result = NoResult
    /\ confirmed = "unasked"
    /\ is_root = FALSE
    /\ exec_dir = NoPrefix
    /\ prefix = NoPrefix
    /\ cmds = <<>>
    /\ removed = {}
    /\ result = NoResult

\* A project tree without build directories, and a user about to invoke the tool.
Init ==
    /\ fs \in ProjectTrees
    /\ shell_cwd \in Dirs
    /\ cwd = shell_cwd
    /\ pc = "start"
    /\ opts = NoOpts
    /\ Fresh

Next ==
    \/ Parse
    \/ MainExplicit
    \/ DetectEnter
    \/ DetectMatch
    \/ DetectAscend
    \/ DetectNotFound
    \/ PerformEnter
    \/ BuildCall
    \/ BuildMake
    \/ BuildCMake
    \/ MesonSetup
    \/ CleanupPartial
    \/ MesonCompile
    \/ RunExecutable
    \/ CleanMake
    \/ CleanCMake
    \/ CleanMeson
    \/ Confirm
    \/ ResolvePrefix
    \/ InstallMake
    \/ MesonConfigure
    \/ MesonInstall
    \/ ProcessExit

Spec == Init /\ [][Next]_vars

\* detect() alone, called by main() without -b, over any tree and from any directory.
InitDetect ==
    /\ fs \in DetectTrees
    /\ shell_cwd \in Dirs
    /\ cwd = shell_cwd
    /\ pc = "main"
    /\ opts = NoOpts
    /\ Fresh

NextDetect ==
    \/ DetectEnter
    \/ DetectMatch
    \/ DetectAscend
    \/ DetectNotFound

SpecDetect == InitDetect /\ [][NextDetect]_vars

(***************************************************************************)
(* Properties                                                              *)
(***************************************************************************)
\* The log entry is a `meson setup` into dir.
IsSetup(c, dir) ==
    /\ c.program = Tok("meson")
    /\ Len(c.args) = 3
    /\ c.args[1] = Tok("setup")
    /\ c.args[3] = BuildDirStr(dir)

\* The log entry is a command of the Build step.
IsBuildCmd(c) ==
    \/ c.program = Tok("make") /\ c.args = MakeBuildArgs
    \/ c.program = Tok("meson") /\ c.args = MesonSetupArgs
    \/ c.program = Tok("meson") /\ c.args = MesonCompileArgs

\* The Build step has run `meson setup` into its build directory, and it failed.
SetupFailed ==
    \E i \in DOMAIN cmds : IsSetup(cmds[i], step_build_dir) /\ ~Success(cmds[i].status)

\* The Build step has returned.
BuildReturned == build_result.kind # "none"

\* The error of a removal that failed.
CleanupError == WithContext(Err(IoError), "Couldn't clean up partial build directory")

\* C1, as stated: in a Meson Build that ran `meson setup` (the build directory was absent)
\* and saw it fail, the build directory does not exist when Build returns.
C1_NoResidue == (BuildReturned /\ SetupFailed) => ~Exists(step_build_dir)

\* C1, amended: in a Meson Build that ran `meson setup` and saw it fail, when Build
\* returns the build directory does not exist, unless its removal failed: then Build
\* returns the error of the removal.
C1_NoResidueUnlessRemovalFails ==
    (BuildReturned /\ SetupFailed) =>
        \/ ~Exists(step_build_dir)
        \/ step_build_dir \in removed /\ build_result = CleanupError

\* A failed setup had left the directory, and Build has returned after removing it.
C1_Witness ==
    /\ BuildReturned
    /\ SetupFailed
    /\ step_build_dir \in removed
    /\ ~Exists(step_build_dir)
    /\ build_result = setup_err

\* C2: nothing that existed when the invocation started is deleted, whatever fails; the
\* only paths given to remove_dir_all are build directories that did not exist then and
\* that a failed `meson setup` of this invocation was made into.
C2_PreexistingKept ==
    /\ \A p \in fs0 : p \in fs
    /\ \A d \in removed :
        /\ d \notin fs0
        /\ \E i \in DOMAIN cmds : IsSetup(cmds[i], d) /\ ~Success(cmds[i].status)

\* A Meson invocation whose build directory existed at the start has failed.
C2_Witness ==
    /\ pc = "exit"
    /\ build_system = "Meson"
    /\ result.kind = "err"
    /\ cmds # <<>>
    /\ build_dir \in fs0
    /\ build_dir \in fs

\* C3, as stated: when `meson setup` failed and left the directory, so that its removal
\* was attempted, the error Build returns is the error of the setup.
C3_OriginalErrorKept ==
    (BuildReturned /\ SetupFailed /\ step_build_dir \in removed) =>
        build_result = setup_err

\* The subcommand's own step has begun: a prompt, a prefix, or a command past the Build.
OwnStepBegun ==
    \/ pc \in {"run", "confirm", "prefix", "make_install", "configure", "meson_install"}
    \/ confirmed # "unasked"
    \/ prefix.some
    \/ \E i \in DOMAIN cmds : ~IsBuildCmd(cmds[i])

\* The commands of a whole Build step, all successful, open the log.
BuildSequenceRan ==
    IF build_system = "Make"
    THEN /\ Len(cmds) >= 1
         /\ cmds[1].program = Tok("make") /\ cmds[1].args = MakeBuildArgs
         /\ Success(cmds[1].status)
    ELSE IF step_build_dir \in fs0
    THEN /\ Len(cmds) >= 1
         /\ cmds[1].program = Tok("meson") /\ cmds[1].args = MesonCompileArgs
         /\ Success(cmds[1].status)
    ELSE /\ Len(cmds) >= 2
         /\ cmds[1].program = Tok("meson") /\ cmds[1].args = MesonSetupArgs
         /\ Success(cmds[1].status)
         /\ cmds[2].program = Tok("meson") /\ cmds[2].args = MesonCompileArgs
         /\ Success(cmds[2].status)

\* C4: in run and install with Make or Meson, the subcommand's own step begins only
\* after the whole Build sequence has run and succeeded; and when the Build step fails
\* the subcommand ends with that error, the executable not run, no confirmation asked,
\* no prefix resolved and no install command run.
C4_BuildFirst ==
    (opts.subcommand.kind \in {"Run", "Install"} /\ build_system \in {"Make", "Meson"}) =>
        /\ OwnStepBegun => (build_result = Ok /\ BuildSequenceRan)
        /\ (BuildReturned /\ build_result.kind # "ok") =>
            /\ pc = "exit"
            /\ result.kind = "err"
            /\ result = WithContext(build_result, "While building the binary")
            /\ ~OwnStepBegun

\* A run with Meson whose `meson compile` failed after a successful setup has ended.
C4_Witness ==
    /\ opts.subcommand.kind = "Run"
    /\ build_system = "Meson"
    /\ Len(cmds) = 2
    /\ build_result.kind = "err"
    /\ pc = "exit"

\* C5: an install in debug mode whose confirmation was declined ends with the error
\* "Aborted.", that carries no context, and has run no command but those of the Build.
C5_DeclinedAborts ==
    (opts.subcommand.kind = "Install" /\ opts.build_mode = "Debug" /\ confirmed = "no") =>
        /\ pc = "exit"
        /\ result = Err("Aborted.")
        /\ ~prefix.some
        /\ \A i \in DOMAIN cmds : IsBuildCmd(cmds[i])

\* A Meson install with an explicit prefix was declined.
C5_Witness ==
    /\ opts.subcommand.kind = "Install"
    /\ opts.subcommand.prefix.some
    /\ build_system = "Meson"
    /\ confirmed = "no"
    /\ pc = "exit"

\* The directory and its ancestors.
Ancestors(p) == {SubSeq(p, 1, k) : k \in 0..Len(p)}

\* The marker files present in a directory.
MarkersIn(d) == {m \in Markers : Join(d, m) \in fs}

\* The directories, from the one the tool was invoked in up to the root, with a marker.
MarkedAbove == {d \in Ancestors(shell_cwd) : MarkersIn(d) # {}}

\* The nearest of them.
NearestMarked == CHOOSE d \in MarkedAbove : \A e \in MarkedAbove : Len(e) <= Len(d)

\* C6: the build system detect() returns is the one detected in the nearest directory,
\* from the working directory up, that holds a marker, and no directory above that one
\* is ever examined.
C6_NearestMatch ==
    /\ build_system # "Unset" =>
        /\ MarkedAbove # {}
        /\ cwd = NearestMarked
        /\ build_system = detect_in_dir(NearestMarked).val
    /\ \A d \in consulted : \A m \in MarkedAbove : Len(d) >= Len(m)

\* Meson is detected in a directory whose parent holds a Makefile.
C6_Witness ==
    /\ build_system = "Meson"
    /\ Len(cwd) >= 2
    /\ Join(cwd, "meson.build") \in fs
    /\ Join(Parent(cwd).val, "Makefile") \in fs

\* C7, as stated: detection ends as not found only if no directory from the working
\* directory up to the root, the root included, holds a marker.
C7_RootExamined == (pc = "exit" /\ result = NotDetected) => MarkedAbove = {}

\* The error of main() when detect() itself fails.
DetectIoError == WithContext(Err(IoError), "Couldn't detect the build system")

\* C8: without -b and without a marker from the working directory up to the root, the
\* invocation ends with a detection failure: no build system is resolved, no command
\* is run, the working directory and the file system are as they were.
C8_DetectionFailure ==
    (opts.build_system = "None" /\ pc # "start" /\ MarkedAbove = {}) =>
        /\ build_system = "Unset"
        /\ cmds = <<>>
        /\ chdirs = <<>>
        /\ cwd = shell_cwd
        /\ fs = fs0
        /\ pc \in {"main", "detect", "exit"}
        /\ pc = "exit" => result \in {NotDetected, DetectIoError}

\* Detection went from the deepest directory up to the root and found nothing.
C8_Witness ==
    /\ pc = "exit"
    /\ result = NotDetected
    /\ Len(shell_cwd) = MaxDepth
    /\ MarkedAbove = {}
    /\ Cardinality(consulted) = MaxDepth

\* The build system of a set of marker names, by precedence.
Precedence(S) ==
    CASE "CMakeLists.txt" \in S -> "CMake"
      [] "CMakeLists.txt" \notin S /\ S \cap {"Makefile", "makefile"} # {} -> "Make"
      [] S \subseteq {"meson.build"} /\ S # {} -> "Meson"
      [] OTHER -> "NoMatch"

\* What detect_in_dir returns for a directory, as a name.
DetectedIn(d) == IF detect_in_dir(d).some THEN detect_in_dir(d).val ELSE "NoMatch"

\* C9: in every directory detect() examines, detect_in_dir returns the build system
\* that the precedence CMakeLists.txt, Makefile or makefile, meson.build gives to the
\* markers present, and a detected build system is that of the directory moved to.
C9_Precedence ==
    /\ \A d \in consulted : DetectedIn(d) = Precedence(MarkersIn(d))
    /\ build_system # "Unset" => build_system = Precedence(MarkersIn(cwd))

\* Make is detected in a directory that holds makefile and meson.build.
C9_Witness ==
    /\ build_system = "Make"
    /\ MarkersIn(cwd) = {"makefile", "meson.build"}
    /\ cwd \in consulted

\* The log entry is an install command.
IsInstallCmd(c) ==
    /\ Len(c.args) >= 1
    /\ \/ c.program = Tok("make") /\ c.args[1] = Tok("install")
       \/ c.program = Tok("meson") /\ c.args[1] \in {Tok("configure"), Tok("install")}

\* The log entry is an install command that is given the prefix p.
InstallsTo(c, p) ==
    \/ c.program = Tok("make") /\ c.args = <<Tok("install"), TokPath("PREFIX=", p)>>
    \/ /\ c.program = Tok("meson")
       /\ c.args = <<Tok("configure"), Tok("-D"), TokPath("prefix=", p),
                     BuildDirStr(build_dir)>>

\* The prefix resolution of an install was made and failed.
ResolutionFailed ==
    /\ opts.subcommand.kind = "Install"
    /\ pc = "exit"
    /\ build_result = Ok
    /\ confirmed = IF opts.build_mode = "Debug" THEN "yes" ELSE "unasked"
    /\ ~prefix.some

\* C10: a resolved prefix is the explicit one when one was given, root or not; else
\* /usr/local for root; else the parent of the user's executable directory; it is what
\* the install commands are given; and the resolution fails, with no install command
\* run, exactly when there is no explicit prefix, the user is not root, and the
\* executable directory or its parent is not to be had.
C10_PrefixPriority ==
    /\ prefix.some =>
        IF opts.subcommand.prefix.some THEN prefix.val = opts.subcommand.prefix.val
        ELSE IF is_root THEN PathEq(prefix.val, PathBuf(TRUE, <<"usr", "local">>, FALSE))
        ELSE /\ exec_dir.some
             /\ exec_dir.val.comps # <<>>
             /\ prefix.val.abs = exec_dir.val.abs
             /\ prefix.val.comps \o <<exec_dir.val.comps[Len(exec_dir.val.comps)]>>
                    = exec_dir.val.comps
    /\ \A i \in DOMAIN cmds :
        (IsInstallCmd(cmds[i]) /\ cmds[i].args[1] # Tok("install") =>
            prefix.some /\ InstallsTo(cmds[i], prefix.val))
        /\ (cmds[i].program = Tok("make") /\ IsInstallCmd(cmds[i]) =>
            prefix.some /\ InstallsTo(cmds[i], prefix.val))
        /\ (IsInstallCmd(cmds[i]) => prefix.some)
    /\ ResolutionFailed =>
        /\ ~opts.subcommand.prefix.some
        /\ ~is_root
        /\ ~exec_dir.some \/ exec_dir.val.comps = <<>>
        /\ result.kind = "err"
        /\ \A i \in DOMAIN cmds : ~IsInstallCmd(cmds[i])

\* Root installs with Make to the explicit prefix.
C10_Witness ==
    /\ opts.subcommand.prefix.some
    /\ is_root
    /\ pc = "exit"
    /\ \E i \in DOMAIN cmds :
        /\ cmds[i].program = Tok("make")
        /\ InstallsTo(cmds[i], opts.subcommand.prefix.val)

\* The step a log entry is, by its program and arguments.
StepName(c) ==
    CASE c.program = Tok("make") /\ c.args[1] = Tok("clean") -> "make clean"
      [] c.program = Tok("make") /\ c.args[1] = Tok("install") -> "make install"
      [] c.program = Tok("make") /\ c.args[1] \notin {Tok("clean"), Tok("install")} -> "make"
      [] c.program = Tok("meson") /\ c.args[1] = Tok("setup") -> "setup"
      [] c.program = Tok("meson") /\ c.args[1] = Tok("compile")
            /\ c.args[Len(c.args)] = Tok("--clean") -> "clean"
      [] c.program = Tok("meson") /\ c.args[1] = Tok("compile")
            /\ c.args[Len(c.args)] # Tok("--clean") -> "compile"
      [] c.program = Tok("meson") /\ c.args[1] = Tok("configure") -> "configure"
      [] c.program = Tok("meson") /\ c.args[1] = Tok("install") -> "install"
      [] OTHER -> "exec"

\* The build directory of the invocation: the build mode's name under the working directory.
ExpectedBuildDir ==
    Append(cwd, IF opts.build_mode = "Debug" THEN ".tap_build_debug"
                ELSE ".tap_build_release")

\* The steps of Build, for the resolved build system and the state of the build directory
\* at the start of the invocation.
ExpectedBuildSteps ==
    CASE build_system = "Make" -> <<"make">>
      [] build_system = "Meson" /\ ExpectedBuildDir \in fs0 -> <<"compile">>
      [] build_system = "Meson" /\ ExpectedBuildDir \notin fs0 -> <<"setup", "compile">>
      [] OTHER -> <<>>

\* The steps of the subcommand.
ExpectedSteps ==
    CASE build_system \notin {"Make", "Meson"} -> <<>>
      [] build_system \in {"Make", "Meson"} /\ opts.subcommand.kind = "Build" ->
            ExpectedBuildSteps
      [] build_system \in {"Make", "Meson"} /\ opts.subcommand.kind = "Run" ->
            ExpectedBuildSteps \o <<"exec">>
      [] build_system = "Make" /\ opts.subcommand.kind = "Clean" -> <<"make clean">>
      [] build_system = "Meson" /\ opts.subcommand.kind = "Clean" -> <<"clean">>
      [] build_system = "Make" /\ opts.subcommand.kind = "Install" ->
            ExpectedBuildSteps \o <<"make install">>
      [] build_system = "Meson" /\ opts.subcommand.kind = "Install" ->
            ExpectedBuildSteps \o <<"configure", "install">>

\* C11: the commands run are the first steps of the subcommand's sequence, each once and
\* in order; every command but the last one run has succeeded, and after a failed one the
\* invocation only ends; and main() returns Ok exactly when the last command run
\* succeeded and was the last step of the sequence.
C11_PrefixOfSteps ==
    /\ Len(cmds) <= Len(ExpectedSteps)
    /\ \A i \in DOMAIN cmds : StepName(cmds[i]) = ExpectedSteps[i]
    /\ \A i \in DOMAIN cmds : i < Len(cmds) => Success(cmds[i].status)
    /\ (cmds # <<>> /\ ~Success(cmds[Len(cmds)].status)) => pc \in {"cleanup", "exit"}
    /\ pc = "exit" =>
        (result.kind = "ok" <=>
            /\ cmds # <<>>
            /\ Success(cmds[Len(cmds)].status)
            /\ Len(cmds) = Len(ExpectedSteps))

\* A Meson install has run its four steps, the last of which failed.
C11_Witness ==
    /\ pc = "exit"
    /\ build_system = "Meson"
    /\ Len(cmds) = 4
    /\ ~Success(cmds[4].status)
    /\ result.kind = "err"

\* The build directory of the invocation, as an argument.
ExpectedBuildDirArg == [s |-> "", p |-> [abs |-> TRUE, comps |-> ExpectedBuildDir,
                                         trail |-> FALSE], n |-> -1]

\* What the error of a command that failed says happened, outermost first.
FailureContext(c) ==
    CASE c.status.kind = "spawn" -> <<"Couldn't spawn process">>
      [] c.status.kind = "wait" -> <<"Couldn't wait for process to finish">>
      [] OTHER -> <<"While running command">>

\* The innermost cause of that error.
FailureCause(c) ==
    CASE c.status.kind = "exit" -> "Process exited with exit code"
      [] c.status.kind = "killed" -> "Process was killed"
      [] OTHER -> IoError

\* C12: with Meson, `meson configure -D prefix=<prefix> <build dir>` is run right after
\* the Build step has succeeded and the prefix is resolved; `meson install -C <build dir>`
\* is run only right after a configure that succeeded, and is run after every such one;
\* a configure that fails ends the invocation, with its own error as the result.
C12_ConfigureThenInstall ==
    build_system = "Meson" =>
        \A i \in DOMAIN cmds :
            /\ StepName(cmds[i]) = "configure" =>
                /\ build_result = Ok
                /\ prefix.some
                /\ i = Len(ExpectedBuildSteps) + 1
                /\ cmds[i].args = <<Tok("configure"), Tok("-D"),
                                    [s |-> "prefix=", p |-> prefix.val, n |-> -1],
                                    ExpectedBuildDirArg>>
                /\ ~Success(cmds[i].status) =>
                    /\ pc = "exit"
                    /\ i = Len(cmds)
                    /\ result.kind = "err"
                    /\ result.ctx = FailureContext(cmds[i])
                    /\ result.root = FailureCause(cmds[i])
                /\ Success(cmds[i].status) =>
                    \/ pc = "meson_install" /\ i = Len(cmds)
                    \/ pc = "exit" /\ Len(cmds) = i + 1
            /\ StepName(cmds[i]) = "install" =>
                /\ i > 1
                /\ StepName(cmds[i - 1]) = "configure"
                /\ Success(cmds[i - 1].status)
                /\ cmds[i].args = <<Tok("install"), Tok("-C"), ExpectedBuildDirArg>>

\* A `meson configure` has failed after a Build that set the directory up.
C12_Witness ==
    /\ build_system = "Meson"
    /\ pc = "exit"
    /\ Len(cmds) = 3
    /\ StepName(cmds[3]) = "configure"
    /\ cmds[3].status.kind = "exit"
    /\ ~Success(cmds[3].status)

\* With CMake nothing has been done: no command, no confirmation, no prefix, no change
\* of the file system.
NothingDone ==
    /\ cmds = <<>>
    /\ confirmed = "unasked"
    /\ ~prefix.some
    /\ fs = fs0
    /\ removed = {}

\* The error of a current directory that cannot be read.
CurrentDirError == WithContext(Err(IoError), "Couldn't get current directory")

\* C13, as stated: with CMake, every subcommand ends in the "not implemented" outcome,
\* which is no error of a process or of detection, and has done nothing before.
C13_AlwaysNotImplemented ==
    build_system = "CMake" =>
        /\ NothingDone
        /\ pc = "exit" => (result = Panic /\ result.kind \notin {"ok", "err"})

\* C13, amended: with CMake, every subcommand ends in the "not implemented" outcome,
\* which is no error of a process or of detection, unless perform_subcommand cannot read
\* the current directory, which ends it with that error; either way it has run no
\* command, asked no confirmation, and created or removed no build directory.
C13_NotImplementedOrNoCurrentDir ==
    build_system = "CMake" =>
        /\ NothingDone
        /\ pc = "exit" =>
            \/ result = Panic /\ result.kind \notin {"ok", "err"}
            \/ result = CurrentDirError
            \/ result = WithContext(CurrentDirError, "While building the binary")

\* An install with a detected CMake has ended as not implemented.
C13_Witness ==
    /\ build_system = "CMake"
    /\ opts.build_system = "None"
    /\ opts.subcommand.kind = "Install"
    /\ pc = "exit"
    /\ result = Panic

\* The path is of a file inside the directory d.
Inside(p, d) ==
    /\ p.abs
    /\ Len(p.comps) > Len(d)
    /\ SubSeq(p.comps, 1, Len(d)) = d

\* The log entry is the run of the user's executable: as named, with Make; a file under
\* the build directory, with Meson.
IsExec(c) ==
    /\ opts.subcommand.kind = "Run"
    /\ \/ build_system = "Make" /\ c.program = Tok(opts.subcommand.executable)
       \/ /\ build_system = "Meson"
          /\ c.program.s = ""
          /\ Inside(c.program.p, ExpectedBuildDir)

\* The tool of the resolved build system governs the state: the build system is the one
\* given, or else the one of the markers of the directory moved to, and every program
\* run is its tool or the executable of `run`.
OneBuildSystem ==
    /\ build_system = "Unset" => cmds = <<>>
    /\ build_system # "Unset" =>
        build_system = IF opts.build_system # "None" THEN opts.build_system
                       ELSE Precedence(MarkersIn(cwd))
    /\ \A i \in DOMAIN cmds :
        /\ build_system \in {"Make", "Meson"}
        /\ build_system = "Make" => (cmds[i].program = Tok("make") \/ IsExec(cmds[i]))
        /\ build_system = "Meson" => (cmds[i].program = Tok("meson") \/ IsExec(cmds[i]))
    /\ ~\E i, j \in DOMAIN cmds :
        cmds[i].program = Tok("make") /\ cmds[j].program = Tok("meson")

\* C14: one build system governs an invocation: once resolved it does not change until
\* the process ends, it is the one given or detected, every program run is its tool
\* (`make` with Make, `meson` with Meson) or the executable of `run`, which with Meson
\* is a file under the build directory; and `make` and `meson` are never both run.
C14_OneBuildSystem ==
    /\ []OneBuildSystem
    /\ [][(build_system # "Unset" /\ pc # "exit") => build_system' = build_system]_vars

\* C15: the build directory computed in any call of perform_subcommand, in any
\* invocation, is one function of the working directory and the build mode alone, the
\* mode's name under that directory; and under one directory the two modes' build
\* directories differ.
C15_BuildDirFunction ==
    /\ build_dir # <<>> => build_dir = ExpectedBuildDir
    /\ step_build_dir # <<>> => step_build_dir = ExpectedBuildDir
    /\ \A r \in Dirs :
        /\ BuildDir(r, "Debug") # BuildDir(r, "Release")
        /\ \A m \in BuildModes :
            /\ Len(BuildDir(r, m)) = Len(r) + 1
            /\ SubSeq(BuildDir(r, m), 1, Len(r)) = r

\* A Meson invocation finds, at the path it computes, the directory that an earlier
\* one set up, and the other mode's directory is not there.
C15_Witness ==
    /\ build_system = "Meson"
    /\ build_dir # <<>>
    /\ build_dir \in fs0
    /\ cmds # <<>>
    /\ StepName(cmds[1]) = "compile"
    /\ \E m \in BuildModes : m # opts.build_mode /\ BuildDir(cwd, m) \notin fs

\* The Build step has run the step of that name.
BuildRan(name) ==
    \E i \in DOMAIN cmds : i <= Len(ExpectedBuildSteps) /\ StepName(cmds[i]) = name

\* The Build step has run the step of that name, and it succeeded.
BuildRanOk(name) ==
    \E i \in DOMAIN cmds :
        i <= Len(ExpectedBuildSteps) /\ StepName(cmds[i]) = name /\ Success(cmds[i].status)

\* C16: a Meson Build step that has returned has run `meson setup` exactly if the build
\* directory was absent at its start, with --buildtype= the build mode and the build
\* directory as arguments, and has run `meson compile` exactly if the directory was
\* there or that setup succeeded; a compile is never preceded by a failed command.
C16_SetupIffAbsent ==
    (build_system = "Meson" /\ step_build_dir # <<>>) =>
        /\ BuildReturned =>
            /\ BuildRan("setup") <=> ExpectedBuildDir \notin fs0
            /\ BuildRan("compile") <=> (ExpectedBuildDir \in fs0 \/ BuildRanOk("setup"))
        /\ BuildRan("setup") => ExpectedBuildDir \notin fs0
        /\ \A i \in DOMAIN cmds :
            /\ StepName(cmds[i]) = "setup" =>
                cmds[i].args =
                    <<Tok("setup"),
                      Tok(IF opts.build_mode = "Release" THEN "--buildtype=release"
                          ELSE "--buildtype=debug"),
                      ExpectedBuildDirArg>>
            /\ StepName(cmds[i]) = "compile" =>
                \A j \in 1..(i - 1) : Success(cmds[j].status)

\* A release Build has set the directory up and compiled.
C16_Witness ==
    /\ build_system = "Meson"
    /\ opts.build_mode = "Release"
    /\ BuildReturned
    /\ BuildRanOk("setup")
    /\ BuildRan("compile")

\* The build directory of the other build mode, under the same working directory.
OtherModeBuildDir ==
    Append(cwd, IF opts.build_mode = "Debug" THEN ".tap_build_release"
                ELSE ".tap_build_debug")

\* A Meson Build step that found its build directory has run `meson compile` alone, and
\* one that did not has run `meson setup`, the other mode's directory there or not.
SetupOncePerMode ==
    (build_system = "Meson" /\ step_build_dir # <<>> /\ BuildReturned) =>
        /\ ExpectedBuildDir \in fs0 =>
            /\ ~BuildRan("setup")
            /\ BuildRan("compile")
        /\ (ExpectedBuildDir \notin fs0 /\ OtherModeBuildDir \in fs0) => BuildRan("setup")

\* This step runs a `meson setup`.
SetupStep ==
    /\ Len(cmds') = Len(cmds) + 1
    /\ StepName(cmds'[Len(cmds')]) = "setup"

\* C17: over the invocations of a behaviour, `meson setup` is never run into a directory
\* that exists, so that once a setup has made the build directory of a mode no later
\* invocation sets it up again while it is there, and Build then runs `meson compile`
\* alone; the directory of one mode does not keep the other mode's setup from running.
C17_SetupOnce ==
    /\ []SetupOncePerMode
    /\ [][SetupStep => cmds'[Len(cmds')].args[3].p.comps \notin fs]_vars

\* With the other mode's directory there from an earlier invocation, this mode's setup
\* has run and succeeded.
C17_Witness ==
    /\ build_system = "Meson"
    /\ OtherModeBuildDir \in fs0
    /\ ExpectedBuildDir \notin fs0
    /\ BuildRanOk("setup")
    /\ ExpectedBuildDir \in fs

\* Where the working directory is: set_current_dir is called at most once; with -b it is
\* not called, nothing is examined, and the build directory is under the directory the
\* tool was invoked from; a detected build system goes with one call that moved the
\* process to the directory that matched, at or above the one it was invoked from.
WorkingDirectory ==
    /\ Len(chdirs) <= 1
    /\ (opts.build_system # "None" /\ pc # "start") =>
        /\ chdirs = <<>>
        /\ consulted = {}
        /\ cwd = shell_cwd
        /\ build_dir # <<>> => SubSeq(build_dir, 1, Len(build_dir) - 1) = shell_cwd
    /\ cwd # shell_cwd => (opts.build_system = "None" /\ build_system # "Unset")
    /\ (opts.build_system = "None" /\ build_system # "Unset") =>
        /\ chdirs = <<cwd>>
        /\ cwd \in Ancestors(shell_cwd)
        /\ MarkersIn(cwd) # {}
        /\ build_dir # <<>> => SubSeq(build_dir, 1, Len(build_dir) - 1) = cwd
    /\ build_system = "Unset" => cwd = shell_cwd

\* C18: the working directory is changed at most once in an invocation, only by a
\* detection that succeeds, to the directory that matched, and before any command is
\* run; with the build system given, detection is not run, the working directory stays,
\* and the build directory is under the directory the tool was invoked from.
C18_WorkingDirectory ==
    /\ []WorkingDirectory
    /\ [][(pc # "exit" /\ (cwd' # cwd \/ chdirs' # chdirs)) =>
            /\ cmds = <<>> /\ cmds' = <<>>
            /\ chdirs = <<>>
            /\ opts.build_system = "None"
            /\ MarkersIn(path) # {}
            /\ chdirs' = <<path>>
            /\ cwd' \in {cwd, path}]_vars
    /\ [][(pc # "exit" /\ cmds # <<>>) => (cwd' = cwd /\ chdirs' = chdirs)]_vars

\* Detection has moved the process up to the project's directory, and a command has run
\* with the build directory under it.
C18_Witness ==
    /\ cwd # shell_cwd
    /\ chdirs = <<cwd>>
    /\ cmds # <<>>
    /\ build_dir = ExpectedBuildDir

\* The error the executor is to return for a child that did not exit with code 0: the
\* cause, under the rendered invocation.
ExecutorError(c) ==
    [kind |-> "err",
     ctx |-> CASE c.status.kind = "spawn" -> <<"While running command", "Couldn't spawn process">>
               [] c.status.kind = "wait" ->
                     <<"While running command", "Couldn't wait for process to finish">>
               [] OTHER -> <<"While running command">>,
     root |-> CASE c.status.kind = "exit" -> "Process exited with exit code"
                [] c.status.kind = "killed" -> "Process was killed"
                [] OTHER -> IoError,
     code |-> IF c.status.kind = "exit" THEN c.status.code ELSE 0,
     cmd |-> <<c.program>> \o c.args]

ExitedZero(c) == c.status.kind = "exit" /\ c.status.code = 0

LastCommand == cmds[Len(cmds)]

\* C19: the executor returns success only for a child that was spawned and exited with
\* code 0, so every command the invocation went on from exited with 0; for a spawn
\* failure, a failed wait, a kill or an exit code N other than 0 it returns the error
\* that names the cause (with N) wrapped with the rendered invocation, which the caller either
\* holds as the setup error or has returned, as it is or as the cause of
\* "While building the binary".
C19_ExecutorOutcome ==
    /\ \A i \in 1..(Len(cmds) - 1) : ExitedZero(cmds[i])
    /\ result.kind = "ok" => \A i \in DOMAIN cmds : ExitedZero(cmds[i])
    /\ (cmds # <<>> /\ ~ExitedZero(LastCommand)) =>
        IF StepName(LastCommand) = "setup" /\ (pc = "cleanup" \/ removed # {})
        THEN setup_err = ExecutorError(LastCommand)
        ELSE /\ pc = "exit"
             /\ result \in {ExecutorError(LastCommand),
                            WithContext(ExecutorError(LastCommand),
                                        "While building the binary")}

\* The directory a Meson step was given: the target of setup, the -C directory of
\* compile, compile --clean and install, the directory given to configure.
StepDir(c) ==
    CASE StepName(c) = "configure" -> c.args[4]
      [] OTHER -> c.args[3]

\* C20: with Meson every step of an invocation is given the same build directory, that
\* of the build mode under the working directory; the two computations of it agree; the
\* executable of `run` is a file inside that directory; with Make the executable and its
\* arguments are passed as they were given.
C20_SameBuildDir ==
    /\ build_system = "Meson" =>
        /\ (build_dir # <<>> /\ step_build_dir # <<>>) => build_dir = step_build_dir
        /\ \A i \in DOMAIN cmds :
            IF StepName(cmds[i]) = "exec"
            THEN /\ cmds[i].program.s = ""
                 /\ Inside(cmds[i].program.p, ExpectedBuildDir)
                 /\ cmds[i].args = opts.subcommand.args
            ELSE StepDir(cmds[i]) = ExpectedBuildDirArg
    /\ build_system = "Make" =>
        \A i \in DOMAIN cmds :
            StepName(cmds[i]) = "exec" =>
                /\ cmds[i].program = Tok(opts.subcommand.executable)
                /\ cmds[i].args = opts.subcommand.args

====
